---- MODULE Spec2Model ----
(***************************************************************************)
(* Model of the primal_health_solana_program instruction handlers          *)
(* (programs/primal-health-solana-program/src/lib.rs).                     *)
(*                                                                         *)
(* Every instruction is one atomic step: account validation (the           *)
(* #[derive(Accounts)] struct) followed by the handler body.  A failing    *)
(* instruction changes nothing but the returned error code.  Storage rent  *)
(* paid by the `payer` of an `init` account is left out of the balances.   *)
(***************************************************************************)
EXTENDS Integers, FiniteSets, Sequences, TLC

\* ----- input domains -----------------------------------------------------
Keys     == {"P", "R"}                \* public keys (wallets)
Dids     == {"did:p1", "did:r1"}
Names    == {"Dr. X", "Dr. Y"}
Hashes   == {"h1", "h2"}
Payloads == {"e1", "e2"}
ClaimIds == {"c1", "c2"}
\* (health_data_hash, amount) pairs a claim is created with
ClaimTerms == {<<"h1", 0>>, <<"h2", 1>>}

InitialLamports == 1                  \* starting balance of every wallet
MaxClock        == 1                  \* the ledger clock runs 0..MaxClock

\* ----- types -------------------------------------------------------------
ClaimStatus == {"Pending", "Verified", "Paid", "Rejected"}

ErrorCode == {"Unauthorized", "InvalidPatient", "ClaimNotVerified"}

\* Errors raised outside the handlers: `init` on an address already in use,
\* Account<T> on an address holding no account, system_program::transfer.
LedgerError == {"AlreadyExists", "AccountNotInitialized", "InsufficientFunds"}

\* An address at which no account has been created.
NoAccount == [initialized |-> FALSE]

PatientAccount(authority, did) ==
    [initialized |-> TRUE, authority |-> authority, did |-> did]

ProviderAccount(authority, did, name) ==
    [initialized |-> TRUE, authority |-> authority, did |-> did, name |-> name]

HealthDataAccount(owner, data_hash, encrypted_data, timestamp) ==
    [initialized |-> TRUE, owner |-> owner, data_hash |-> data_hash,
     encrypted_data |-> encrypted_data, timestamp |-> timestamp]

ClaimAccount(claim_id, patient, provider, health_data_hash, amount, status, timestamp) ==
    [initialized |-> TRUE, claim_id |-> claim_id, patient |-> patient,
     provider |-> provider, health_data_hash |-> health_data_hash,
     amount |-> amount, status |-> status, timestamp |-> timestamp]

\* ----- state -------------------------------------------------------------
VARIABLES
    patient_account,      \* [Keys -> account]     PDA ["patient", authority]
    provider_account,     \* [Keys -> account]     PDA ["provider", authority]
    health_data_account,  \* [Hashes -> account]   PDA ["health_data", data_hash]
    claim_account,        \* [ClaimIds -> account] PDA ["claim", claim_id]
    lamports,             \* [Keys -> Nat]         wallet balances
    clock,                \* Clock::get()?.unix_timestamp
    settled,              \* claims whose transfer (lib.rs:98) has been executed
    result,               \* instruction last executed and what it returned
    inflight              \* transactions submitted concurrently, and the
                          \* state they were submitted against

vars == <<patient_account, provider_account, health_data_account,
          claim_account, lamports, clock, settled, result, inflight>>

Result(op, account, err) == [op |-> op, account |-> account, err |-> err]

\* Transactions that may be in flight together.
Txs == {"t1", "t2"}

\* The claim the concurrent transactions target.
SharedClaim == "c1"

Init ==
    /\ patient_account     = [k \in Keys |-> NoAccount]
    /\ provider_account    = [k \in Keys |-> NoAccount]
    /\ health_data_account = [h \in Hashes |-> NoAccount]
    /\ claim_account       = [c \in ClaimIds |-> NoAccount]
    /\ lamports            = [k \in Keys |-> InitialLamports]
    /\ clock               = 0
    /\ settled             = {}
    /\ result              = Result("none", "none", "Ok")
    /\ inflight            = [tx    |-> [t \in Txs |-> [pc |-> "idle"]],
                              start |-> [account  |-> NoAccount,
                                         lamports |-> [k \in Keys |-> InitialLamports]]]

\* ----- account validation (#[derive(Accounts)]) --------------------------
\* Each returns "Ok" or the error that rejects the instruction before the
\* handler runs.

\* init_if_needed instead of init: an existing identity is overwritten.
InitializePatient_reinit(authority) == "Ok"

InitializePatient(authority) ==
    IF patient_account[authority].initialized THEN "AlreadyExists" ELSE "Ok"

\* init_if_needed instead of init: an existing provider is overwritten.
InitializeProvider_reinit(authority) == "Ok"

InitializeProvider(authority) ==
    IF provider_account[authority].initialized THEN "AlreadyExists" ELSE "Ok"

\* init_if_needed instead of init: an existing record is overwritten.
SubmitHealthData_reinit(data_hash) == "Ok"

SubmitHealthData(data_hash) ==
    IF health_data_account[data_hash].initialized THEN "AlreadyExists" ELSE "Ok"

\* init_if_needed instead of init: an existing claim is overwritten.
CreateClaim_reinit(claim_id) == "Ok"

CreateClaim(claim_id) ==
    IF claim_account[claim_id].initialized THEN "AlreadyExists" ELSE "Ok"

VerifyClaim(claim) ==
    IF claim_account[claim].initialized THEN "Ok" ELSE "AccountNotInitialized"

ProcessPayment(claim) ==
    IF claim_account[claim].initialized THEN "Ok" ELSE "AccountNotInitialized"

\* ----- Identity Registry -------------------------------------------------
initialize_patient(authority, did) ==
    LET err == InitializePatient(authority) IN
    /\ patient_account' =
          IF err = "Ok"
          THEN [patient_account EXCEPT ![authority] = PatientAccount(authority, did)]
          ELSE patient_account
    /\ result' = Result("initialize_patient", authority, err)
    /\ UNCHANGED <<provider_account, health_data_account, claim_account,
                   lamports, clock, settled, inflight>>

initialize_provider(authority, did, name) ==
    LET err == InitializeProvider(authority) IN
    /\ provider_account' =
          IF err = "Ok"
          THEN [provider_account EXCEPT ![authority] = ProviderAccount(authority, did, name)]
          ELSE provider_account
    /\ result' = Result("initialize_provider", authority, err)
    /\ UNCHANGED <<patient_account, health_data_account, claim_account,
                   lamports, clock, settled, inflight>>

\* ----- Health Record Store -----------------------------------------------
submit_health_data(owner, data_hash, encrypted_data) ==
    LET err == SubmitHealthData(data_hash) IN
    /\ health_data_account' =
          IF err = "Ok"
          THEN [health_data_account EXCEPT ![data_hash] =
                   HealthDataAccount(owner, data_hash, encrypted_data, clock)]
          ELSE health_data_account
    /\ result' = Result("submit_health_data", data_hash, err)
    /\ UNCHANGED <<patient_account, provider_account, claim_account,
                   lamports, clock, settled, inflight>>

\* ----- Claim Ledger ------------------------------------------------------
create_claim(claim_id, patient, provider, health_data_hash, amount) ==
    LET err == CreateClaim(claim_id) IN
    /\ claim_account' =
          IF err = "Ok"
          THEN [claim_account EXCEPT ![claim_id] =
                   ClaimAccount(claim_id, patient, provider, health_data_hash,
                                amount, "Pending", clock)]
          ELSE claim_account
    /\ result' = Result("create_claim", claim_id, err)
    /\ UNCHANGED <<patient_account, provider_account, health_data_account,
                   lamports, clock, settled, inflight>>

\* verify_claim without its require!.
verify_claim_require_none(account, provider) == "Ok"

\* verify_claim that also refuses a claim no longer Pending.
verify_claim_require_pending(account, provider) ==
    IF account.provider = provider /\ account.status = "Pending"
    THEN "Ok" ELSE "Unauthorized"

\* The require! of verify_claim.
verify_claim_require(account, provider) ==
    IF account.provider = provider THEN "Ok" ELSE "Unauthorized"

\* verify_claim that also restamps the claim.
verify_claim_restamp(claim, provider, status) ==
    LET err == IF VerifyClaim(claim) # "Ok" THEN VerifyClaim(claim)
               ELSE verify_claim_require(claim_account[claim], provider) IN
    /\ claim_account' =
          IF err = "Ok"
          THEN [claim_account EXCEPT ![claim].status = status,
                                     ![claim].timestamp = clock]
          ELSE claim_account
    /\ result' = Result("verify_claim", claim, err)
    /\ UNCHANGED <<patient_account, provider_account, health_data_account,
                   lamports, clock, settled, inflight>>

verify_claim(claim, provider, status) ==
    LET err == IF VerifyClaim(claim) # "Ok" THEN VerifyClaim(claim)
               ELSE verify_claim_require(claim_account[claim], provider) IN
    /\ claim_account' =
          IF err = "Ok"
          THEN [claim_account EXCEPT ![claim].status = status]
          ELSE claim_account
    /\ result' = Result("verify_claim", claim, err)
    /\ UNCHANGED <<patient_account, provider_account, health_data_account,
                   lamports, clock, settled, inflight>>

\* ----- Payment Settlement ------------------------------------------------
\* process_payment without the status check.
process_payment_require_nostatus(account, provider, patient) ==
    IF account.provider # provider THEN "Unauthorized"
    ELSE IF account.patient # patient THEN "InvalidPatient"
    ELSE "Ok"

\* process_payment without the patient check.
process_payment_require_nopatient(account, provider, patient) ==
    IF account.provider # provider THEN "Unauthorized"
    ELSE IF account.status # "Verified" THEN "ClaimNotVerified"
    ELSE "Ok"

\* process_payment with the status checked first.
process_payment_require_status_first(account, provider, patient) ==
    IF account.status # "Verified" THEN "ClaimNotVerified"
    ELSE IF account.provider # provider THEN "Unauthorized"
    ELSE IF account.patient # patient THEN "InvalidPatient"
    ELSE "Ok"

\* The three require! checks of process_payment, in program order.
process_payment_require(account, provider, patient) ==
    IF account.provider # provider THEN "Unauthorized"
    ELSE IF account.patient # patient THEN "InvalidPatient"
    ELSE IF account.status # "Verified" THEN "ClaimNotVerified"
    ELSE "Ok"

\* A transfer that never checks the balance of `from`.
transfer_result_unchecked(balances, from, amount) == "Ok"

\* system_program::transfer: rejected when `from` holds less than `amount`.
transfer_result(balances, from, amount) ==
    IF balances[from] < amount THEN "InsufficientFunds" ELSE "Ok"

\* A transfer that credits `to` without debiting `from`.
transfer_credit_only(balances, from, to, amount) ==
    [balances EXCEPT ![to] = @ + amount]

\* A transfer that debits `from` and credits nobody.
transfer_debit_only(balances, from, to, amount) ==
    [balances EXCEPT ![from] = @ - amount]

\* A transfer in the wrong direction.
transfer_reversed(balances, from, to, amount) ==
    LET debited == [balances EXCEPT ![to] = @ - amount]
    IN  [debited EXCEPT ![from] = @ + amount]

\* system_program::transfer: debit `from`, then credit `to` (which may be
\* the same wallet).
transfer(balances, from, to, amount) ==
    LET debited == [balances EXCEPT ![from] = @ - amount]
    IN  [debited EXCEPT ![to] = @ + amount]

\* process_payment that transfers but forgets to mark the claim Paid.
process_payment_status_kept(claim, provider, patient) ==
    LET account == claim_account[claim]
        err == IF ProcessPayment(claim) # "Ok" THEN ProcessPayment(claim)
               ELSE IF process_payment_require(account, provider, patient) # "Ok"
                    THEN process_payment_require(account, provider, patient)
               ELSE transfer_result(lamports, provider, account.amount)
    IN
    /\ IF err = "Ok"
       THEN /\ lamports' = transfer(lamports, provider, patient, account.amount)
            /\ settled' = settled \cup {claim}
            /\ UNCHANGED claim_account
       ELSE UNCHANGED <<lamports, claim_account, settled>>
    /\ result' = Result("process_payment", claim, err)
    /\ UNCHANGED <<patient_account, provider_account, health_data_account, clock,
                   inflight>>

process_payment(claim, provider, patient) ==
    LET account == claim_account[claim]
        err == IF ProcessPayment(claim) # "Ok" THEN ProcessPayment(claim)
               ELSE IF process_payment_require(account, provider, patient) # "Ok"
                    THEN process_payment_require(account, provider, patient)
               ELSE transfer_result(lamports, provider, account.amount)
    IN
    /\ IF err = "Ok"
       THEN /\ lamports' = transfer(lamports, provider, patient, account.amount)
            /\ claim_account' = [claim_account EXCEPT ![claim].status = "Paid"]
            /\ settled' = settled \cup {claim}
       ELSE UNCHANGED <<lamports, claim_account, settled>>
    /\ result' = Result("process_payment", claim, err)
    /\ UNCHANGED <<patient_account, provider_account, health_data_account, clock,
                   inflight>>

\* ----- ledger clock ------------------------------------------------------
Tick ==
    /\ clock < MaxClock
    /\ clock' = clock + 1
    /\ UNCHANGED <<patient_account, provider_account, health_data_account,
                   claim_account, lamports, settled, result, inflight>>

\* ----- specifications ----------------------------------------------------
NextIdentity ==
    \/ \E authority \in Keys, did \in Dids : initialize_patient(authority, did)
    \/ \E authority \in Keys, did \in Dids, name \in Names :
          initialize_provider(authority, did, name)

NextRecords ==
    \/ \E owner \in Keys, data_hash \in Hashes, encrypted_data \in Payloads :
          submit_health_data(owner, data_hash, encrypted_data)
    \/ Tick

NextClaims ==
    \/ \E claim_id \in ClaimIds, patient \in Keys, provider \in Keys,
          terms \in ClaimTerms :
          create_claim(claim_id, patient, provider, terms[1], terms[2])
    \/ \E claim \in ClaimIds, provider \in Keys, status \in ClaimStatus :
          verify_claim(claim, provider, status)
    \/ \E claim \in ClaimIds, provider \in Keys, patient \in Keys :
          process_payment(claim, provider, patient)

Next == NextIdentity \/ NextRecords \/ NextClaims

\* The whole program.
Spec == Init /\ [][Next]_vars

\* The components share no account: each is also checked on its own.
SpecIdentity == Init /\ [][NextIdentity]_vars
SpecRecords  == Init /\ [][NextRecords]_vars
SpecClaims   == Init /\ [][NextClaims]_vars

TypeOK ==
    /\ \A k \in Keys : lamports[k] \in Nat
    /\ clock \in 0..MaxClock
    /\ settled \subseteq ClaimIds
    /\ \A c \in ClaimIds : claim_account[c].initialized =>
          /\ claim_account[c].status \in ClaimStatus
          /\ claim_account[c].claim_id = c

\* ----- claim lifecycle ---------------------------------------------------
\* The lifecycle of spec section 4.3.
Forward == {<<"Pending", "Verified">>, <<"Pending", "Rejected">>,
            <<"Verified", "Paid">>}

\* C1: a claim's status only moves forward, Pending -> {Verified, Rejected}
\* and Verified -> Paid: in every step an existing claim keeps its status
\* or takes one forward transition, so Rejected and Paid are never left and
\* no claim returns to an earlier status.
C1_StatusOnlyMovesForward ==
    [][\A c \in ClaimIds :
          claim_account[c].initialized =>
             /\ claim_account'[c].initialized
             /\ \/ claim_account'[c].status = claim_account[c].status
                \/ <<claim_account[c].status, claim_account'[c].status>> \in Forward
      ]_vars

\* C2: the transfer of a claim's amount happens at most once: no
\* process_payment succeeds on a claim whose transfer has already been
\* executed.
C2_PaymentAtMostOnce ==
    [][\A c \in ClaimIds, r \in Keys, p \in Keys :
          (result' = Result("process_payment", c, "Ok") /\ process_payment(c, r, p))
          => c \notin settled
      ]_vars

\* C3: a claim created Pending becomes Verified or Rejected, in any step
\* of its life, only by a verify_claim signed by the provider recorded on
\* the claim; verify_claim signed by any other key returns Unauthorized and
\* leaves every claim as it was.
C3_OnlyRecordedProviderAdjudicates ==
    [][\A c \in ClaimIds :
          claim_account[c].initialized =>
             /\ ( /\ claim_account'[c].status # claim_account[c].status
                  /\ claim_account'[c].status \in {"Verified", "Rejected"} )
                => /\ result' = Result("verify_claim", c, "Ok")
                   /\ verify_claim(c, claim_account[c].provider, claim_account'[c].status)
             /\ \A k \in Keys, s \in ClaimStatus :
                   ( /\ result'.op = "verify_claim" /\ result'.account = c
                     /\ k # claim_account[c].provider
                     /\ verify_claim(c, k, s) )
                   => /\ result'.err = "Unauthorized"
                      /\ claim_account' = claim_account
      ]_vars

\* A verify_claim by a key other than the recorded provider was rejected on
\* a Pending claim, while another claim has been adjudicated.
C3_Witness ==
    \E c \in ClaimIds, d \in ClaimIds :
       /\ result = Result("verify_claim", c, "Unauthorized")
       /\ claim_account[c].initialized /\ claim_account[c].status = "Pending"
       /\ claim_account[d].initialized /\ claim_account[d].status \in {"Verified", "Rejected"}

\* ----- payment preconditions ---------------------------------------------
\* The step is process_payment(c, r, p) on an existing claim c.
PaymentStep(c, r, p) ==
    /\ result'.op = "process_payment" /\ result'.account = c
    /\ claim_account[c].initialized
    /\ process_payment(c, r, p)

\* C4 as stated: process_payment on a claim that is not Verified fails with
\* ClaimNotVerified for every acting provider and patient, balances and
\* claims unchanged.
C4_AlwaysClaimNotVerified ==
    [][\A c \in ClaimIds, r \in Keys, p \in Keys :
          (PaymentStep(c, r, p) /\ claim_account[c].status # "Verified")
          => /\ result'.err = "ClaimNotVerified"
             /\ lamports' = lamports
             /\ claim_account' = claim_account
      ]_vars

\* C4 (amended): process_payment on a claim that is not Verified always
\* fails and leaves balances and claims unchanged; the error is
\* ClaimNotVerified when the recorded provider and the recorded patient
\* act, and Unauthorized or InvalidPatient otherwise.
C4_NotVerifiedPaymentFails ==
    [][\A c \in ClaimIds, r \in Keys, p \in Keys :
          (PaymentStep(c, r, p) /\ claim_account[c].status # "Verified")
          => /\ IF r = claim_account[c].provider /\ p = claim_account[c].patient
                THEN result'.err = "ClaimNotVerified"
                ELSE result'.err \in {"Unauthorized", "InvalidPatient"}
             /\ lamports' = lamports
             /\ claim_account' = claim_account
      ]_vars

\* process_payment was refused with ClaimNotVerified on a claim already Paid
\* by a transfer.
C4_Witness ==
    \E c \in ClaimIds :
       /\ result = Result("process_payment", c, "ClaimNotVerified")
       /\ claim_account[c].initialized /\ claim_account[c].status = "Paid"
       /\ c \in settled

\* C5 as stated: process_payment on a Verified claim with an acting patient
\* other than the recorded one fails with InvalidPatient, whoever the acting
\* provider is; no balance changes and the claim stays Verified.
C5_AlwaysInvalidPatient ==
    [][\A c \in ClaimIds, r \in Keys, p \in Keys :
          ( /\ PaymentStep(c, r, p)
            /\ claim_account[c].status = "Verified"
            /\ p # claim_account[c].patient )
          => /\ result'.err = "InvalidPatient"
             /\ lamports' = lamports
             /\ claim_account'[c].status = "Verified"
      ]_vars

\* C5 (amended): process_payment on a Verified claim with an acting patient
\* other than the recorded one fails, moves no funds and leaves the claim
\* Verified; the error is InvalidPatient when the recorded provider acts
\* and Unauthorized when the acting provider is wrong as well.
C5_WrongPatientPaymentFails ==
    [][\A c \in ClaimIds, r \in Keys, p \in Keys :
          ( /\ PaymentStep(c, r, p)
            /\ claim_account[c].status = "Verified"
            /\ p # claim_account[c].patient )
          => /\ result'.err = IF r = claim_account[c].provider
                              THEN "InvalidPatient" ELSE "Unauthorized"
             /\ lamports' = lamports
             /\ claim_account'[c].status = "Verified"
      ]_vars

\* process_payment was refused with InvalidPatient on a Verified claim.
C5_Witness ==
    \E c \in ClaimIds :
       /\ result = Result("process_payment", c, "InvalidPatient")
       /\ claim_account[c].initialized /\ claim_account[c].status = "Verified"

\* ----- payment effect ----------------------------------------------------
\* The recorded provider and patient act on a Verified claim that the
\* provider can afford.
Payable(c, r, p) ==
    /\ r = claim_account[c].provider
    /\ p = claim_account[c].patient
    /\ claim_account[c].status = "Verified"
    /\ lamports[r] >= claim_account[c].amount

\* C6 as stated: a successful process_payment takes exactly the amount off
\* the provider's balance, adds exactly the amount to the patient's balance
\* and sets the status to Paid, in one step.
C6_DebitAndCredit ==
    [][\A c \in ClaimIds, r \in Keys, p \in Keys :
          (PaymentStep(c, r, p) /\ Payable(c, r, p))
          => /\ result'.err = "Ok"
             /\ lamports'[r] = lamports[r] - claim_account[c].amount
             /\ lamports'[p] = lamports[p] + claim_account[c].amount
             /\ claim_account'[c].status = "Paid"
      ]_vars

\* C6 (amended): a successful process_payment sets the status to Paid and,
\* in the same step, when provider and patient are different wallets takes
\* exactly the amount off the provider's balance and adds exactly the amount
\* to the patient's; when the claim names one wallet as both, that wallet's
\* balance is unchanged.  No other balance changes.
C6_PaymentEffect ==
    [][\A c \in ClaimIds, r \in Keys, p \in Keys :
          (PaymentStep(c, r, p) /\ Payable(c, r, p))
          => /\ result'.err = "Ok"
             /\ claim_account'[c].status = "Paid"
             /\ IF r # p
                THEN /\ lamports'[r] = lamports[r] - claim_account[c].amount
                     /\ lamports'[p] = lamports[p] + claim_account[c].amount
                ELSE lamports'[r] = lamports[r]
             /\ \A k \in Keys \ {r, p} : lamports'[k] = lamports[k]
      ]_vars

\* A first payment of one lamport between two different wallets succeeded.
C6_Witness ==
    \E c \in ClaimIds :
       /\ result = Result("process_payment", c, "Ok")
       /\ claim_account[c].initialized /\ claim_account[c].status = "Paid"
       /\ claim_account[c].provider # claim_account[c].patient
       /\ claim_account[c].amount = 1
       /\ lamports[claim_account[c].provider] = InitialLamports - 1
       /\ lamports[claim_account[c].patient] = InitialLamports + 1

C8_CreateClaimOnce ==
    [][\A id \in ClaimIds, patient \in Keys, provider \in Keys, terms \in ClaimTerms :
          ( /\ result'.op = "create_claim" /\ result'.account = id
            /\ create_claim(id, patient, provider, terms[1], terms[2]) )
          => IF claim_account[id].initialized
             THEN /\ result'.err = "AlreadyExists"
                  /\ claim_account' = claim_account
             ELSE /\ result'.err = "Ok"
                  /\ claim_account'[id].initialized
                  /\ claim_account'[id].status = "Pending"
                  /\ claim_account'[id].patient = patient
                  /\ claim_account'[id].provider = provider
                  /\ claim_account'[id].health_data_hash = terms[1]
                  /\ claim_account'[id].amount = terms[2]
                  /\ \A d \in ClaimIds \ {id} : claim_account'[d] = claim_account[d]
      ]_vars

\* create_claim was refused on the id of a claim that has already been paid.
C8_Witness ==
    \E c \in ClaimIds :
       /\ result = Result("create_claim", c, "AlreadyExists")
       /\ claim_account[c].initialized /\ claim_account[c].status = "Paid"
       /\ c \in settled

\* C9: registering a patient, or a provider, under an authority that already
\* has one fails with AlreadyExists whatever did and name are supplied, and
\* the stored identities are unchanged.
C9_RegisterOnce ==
    [][ /\ \A a \in Keys, d \in Dids :
             ( /\ result'.op = "initialize_patient"
               /\ patient_account[a].initialized
               /\ initialize_patient(a, d) )
             => /\ result'.err = "AlreadyExists"
                /\ patient_account' = patient_account
        /\ \A a \in Keys, d \in Dids, n \in Names :
             ( /\ result'.op = "initialize_provider"
               /\ provider_account[a].initialized
               /\ initialize_provider(a, d, n) )
             => /\ result'.err = "AlreadyExists"
                /\ provider_account' = provider_account
      ]_vars

\* A second initialize_patient under an authority was refused; the same
\* authority is also registered as a provider.
C9_Witness ==
    \E a \in Keys :
       /\ result = Result("initialize_patient", a, "AlreadyExists")
       /\ patient_account[a].initialized
       /\ provider_account[a].initialized

\* C10: submit_health_data with a data_hash already submitted fails with
\* AlreadyExists for every owner and payload, and the stored records (owner,
\* payload, timestamp) are unchanged.
C10_SubmitOnce ==
    [][\A o \in Keys, h \in Hashes, e \in Payloads :
          ( /\ result'.op = "submit_health_data"
            /\ health_data_account[h].initialized
            /\ submit_health_data(o, h, e) )
          => /\ result'.err = "AlreadyExists"
             /\ health_data_account' = health_data_account
      ]_vars

\* A resubmission of a hash was refused after the clock had moved on; the
\* record keeps the timestamp of the first submission.
C10_Witness ==
    \E h \in Hashes :
       /\ result = Result("submit_health_data", h, "AlreadyExists")
       /\ health_data_account[h].initialized
       /\ health_data_account[h].timestamp < clock

\* ----- end to end --------------------------------------------------------
\* The instructions of the end-to-end scenario of spec section 8, in any
\* order and any number of times: P registers as patient and submits
\* records, R registers as provider, claim "c1" is opened by P against R,
\* anyone tries to adjudicate it and to have it paid.
NextEndToEnd ==
    \/ \E did \in Dids : initialize_patient("P", did)
    \/ \E did \in Dids, name \in Names : initialize_provider("R", did, name)
    \/ \E data_hash \in Hashes, encrypted_data \in Payloads :
          submit_health_data("P", data_hash, encrypted_data)
    \/ \E terms \in ClaimTerms : create_claim("c1", "P", "R", terms[1], terms[2])
    \/ \E provider \in Keys, status \in ClaimStatus :
          verify_claim("c1", provider, status)
    \/ \E provider \in Keys, patient \in Keys :
          process_payment("c1", provider, patient)

SpecEndToEnd == Init /\ [][NextEndToEnd]_vars

\* P and R are registered, the record of claim "c1" is stored, and "c1" is
\* the claim of P against R.
Registered ==
    /\ patient_account["P"].initialized
    /\ provider_account["R"].initialized
    /\ claim_account["c1"].initialized
    /\ claim_account["c1"].patient = "P"
    /\ claim_account["c1"].provider = "R"
    /\ health_data_account[claim_account["c1"].health_data_hash].initialized

\* C11: once P and R are registered, the record submitted, claim c1 of
\* (P, R, amount) created and adjudicated Verified, process_payment for c1
\* by (R, P), R holding the amount, returns Ok with the status Paid, P's
\* balance up by the amount and R's down by the amount; and a
\* process_payment for c1 by (R, P) issued right after a successful one
\* fails with ClaimNotVerified and moves no funds.
C11_EndToEnd ==
    [][ ( /\ Registered
          /\ result'.op = "process_payment"
          /\ process_payment("c1", "R", "P") )
        => /\ ( /\ claim_account["c1"].status = "Verified"
                /\ lamports["R"] >= claim_account["c1"].amount )
              => /\ result'.err = "Ok"
                 /\ claim_account'["c1"].status = "Paid"
                 /\ lamports'["P"] = lamports["P"] + claim_account["c1"].amount
                 /\ lamports'["R"] = lamports["R"] - claim_account["c1"].amount
           /\ result = Result("process_payment", "c1", "Ok")
              => /\ result'.err = "ClaimNotVerified"
                 /\ lamports' = lamports
                 /\ claim_account'["c1"].status = "Paid"
      ]_vars

\* The scenario has been run to its end: c1, worth one lamport, was paid
\* once and the second process_payment was refused.
C11_Witness ==
    /\ Registered
    /\ result = Result("process_payment", "c1", "ClaimNotVerified")
    /\ claim_account["c1"].status = "Paid"
    /\ claim_account["c1"].amount = 1
    /\ settled = {"c1"}
    /\ lamports["P"] = InitialLamports + 1
    /\ lamports["R"] = InitialLamports - 1

\* ----- concurrent transactions -------------------------------------------
\* A transaction is loaded (its accounts are deserialized), then its handler
\* runs on the loaded copy and, when it returns Ok, the copy is written
\* back.  verify_claim and process_payment declare claim_account
\* #[account(mut)], so a transaction holds the claim's write lock from load
\* to write-back.

Instructions ==
    [op : {"process_payment"}, claim : {SharedClaim}, provider : Keys, patient : Keys]
    \cup
    [op : {"verify_claim"}, claim : {SharedClaim}, provider : Keys, status : ClaimStatus]

\* A ledger without write locks.
AccountLocked_never(claim) == FALSE

\* The claim account is write-locked by a transaction in flight.
AccountLocked(claim) ==
    \E t \in Txs : /\ inflight.tx[t].pc = "running"
                   /\ inflight.tx[t].instr.claim = claim

\* Handlers in which process_payment transfers but leaves the status as it
\* was.
Execute_status_kept(instr, account, balances) ==
    IF ~account.initialized
    THEN [account |-> account, lamports |-> balances, err |-> "AccountNotInitialized"]
    ELSE IF instr.op = "verify_claim"
    THEN LET err == verify_claim_require(account, instr.provider) IN
         [account  |-> IF err = "Ok" THEN [account EXCEPT !.status = instr.status]
                       ELSE account,
          lamports |-> balances,
          err      |-> err]
    ELSE LET req == process_payment_require(account, instr.provider, instr.patient)
             err == IF req # "Ok" THEN req
                    ELSE transfer_result(balances, instr.provider, account.amount)
         IN
         [account  |-> account,
          lamports |-> IF err = "Ok"
                       THEN transfer(balances, instr.provider, instr.patient,
                                     account.amount)
                       ELSE balances,
          err      |-> err]

\* The handler of instr run on a loaded claim account and the balances:
\* the account and balances it leaves and the code it returns.
Execute(instr, account, balances) ==
    IF ~account.initialized
    THEN [account |-> account, lamports |-> balances, err |-> "AccountNotInitialized"]
    ELSE IF instr.op = "verify_claim"
    THEN LET err == verify_claim_require(account, instr.provider) IN
         [account  |-> IF err = "Ok" THEN [account EXCEPT !.status = instr.status]
                       ELSE account,
          lamports |-> balances,
          err      |-> err]
    ELSE LET req == process_payment_require(account, instr.provider, instr.patient)
             err == IF req # "Ok" THEN req
                    ELSE transfer_result(balances, instr.provider, account.amount)
         IN
         [account  |-> IF err = "Ok" THEN [account EXCEPT !.status = "Paid"]
                       ELSE account,
          lamports |-> IF err = "Ok"
                       THEN transfer(balances, instr.provider, instr.patient,
                                     account.amount)
                       ELSE balances,
          err      |-> err]

AllIdle == \A t \in Txs : inflight.tx[t].pc = "idle"

\* Transaction t is scheduled: it waits for the claim's write lock and loads
\* the claim account.
Begin(t, instr) ==
    /\ inflight.tx[t].pc = "idle"
    /\ ~AccountLocked(instr.claim)
    /\ inflight' =
          [tx    |-> [inflight.tx EXCEPT ![t] =
                         [pc |-> "running", instr |-> instr,
                          account |-> claim_account[instr.claim]]],
           start |-> IF AllIdle
                     THEN [account  |-> claim_account[instr.claim],
                           lamports |-> lamports]
                     ELSE inflight.start]
    /\ UNCHANGED <<patient_account, provider_account, health_data_account,
                   claim_account, lamports, clock, settled, result>>

\* Transaction t runs its handler and commits.
Finish(t) ==
    /\ inflight.tx[t].pc = "running"
    /\ LET instr == inflight.tx[t].instr
           out   == Execute(instr, inflight.tx[t].account, lamports)
       IN
       /\ claim_account' =
             IF out.err = "Ok"
             THEN [claim_account EXCEPT ![instr.claim] = out.account]
             ELSE claim_account
       /\ lamports' = out.lamports
       /\ settled' = IF out.err = "Ok" /\ instr.op = "process_payment"
                     THEN settled \cup {instr.claim} ELSE settled
       /\ result' = Result(instr.op, instr.claim, out.err)
       /\ inflight' = [inflight EXCEPT !.tx[t] =
                          [pc |-> "done", instr |-> instr, err |-> out.err]]
    /\ UNCHANGED <<patient_account, provider_account, health_data_account, clock>>

\* The claim is set up by single instructions; then two transactions on it
\* are submitted together.
NextConcurrent ==
    \/ /\ AllIdle
       /\ \E patient \in Keys, provider \in Keys, terms \in ClaimTerms :
             create_claim(SharedClaim, patient, provider, terms[1], terms[2])
    \/ /\ AllIdle
       /\ \E provider \in Keys, status \in ClaimStatus :
             verify_claim(SharedClaim, provider, status)
    \/ \E t \in Txs, instr \in Instructions : Begin(t, instr)
    \/ \E t \in Txs : Finish(t)

SpecConcurrent == Init /\ [][NextConcurrent]_vars

\* What running i1 and then i2, each as a whole, makes of state st.
Serial(i1, i2, st) ==
    LET a == Execute(i1, st.account, st.lamports)
        b == Execute(i2, a.account, a.lamports)
    IN  [account |-> b.account, lamports |-> b.lamports,
         first |-> a.err, second |-> b.err]

BothDone == \A t \in Txs : inflight.tx[t].pc = "done"

\* C12: two transactions on the same claim are never interleaved: when both
\* have finished, the claim, the balances and the two return codes are those
\* of running the two whole instructions one after the other in some order;
\* in particular, of two process_payment attempts at most one returns Ok and
\* the payer's balance is down by at most the claim's amount.
C12_Serializable ==
    BothDone =>
       LET i1 == inflight.tx["t1"].instr
           i2 == inflight.tx["t2"].instr
           e1 == inflight.tx["t1"].err
           e2 == inflight.tx["t2"].err
           st == inflight.start
           s12 == Serial(i1, i2, st)
           s21 == Serial(i2, i1, st)
       IN
       /\ \/ /\ claim_account[SharedClaim] = s12.account
             /\ lamports = s12.lamports
             /\ e1 = s12.first /\ e2 = s12.second
          \/ /\ claim_account[SharedClaim] = s21.account
             /\ lamports = s21.lamports
             /\ e2 = s21.first /\ e1 = s21.second
       /\ (i1.op = "process_payment" /\ i2.op = "process_payment")
          => /\ ~(e1 = "Ok" /\ e2 = "Ok")
             /\ st.account.initialized
                => \A k \in Keys :
                      lamports[k] >= st.lamports[k] - st.account.amount

\* Two process_payment transactions by (provider, patient) were submitted
\* together against a Verified claim worth one lamport between two wallets:
\* one was paid, the other refused.
C12_Witness ==
    /\ BothDone
    /\ inflight.start.account.initialized
    /\ inflight.start.account.status = "Verified"
    /\ inflight.start.account.amount = 1
    /\ inflight.start.account.provider # inflight.start.account.patient
    /\ \A t \in Txs :
          /\ inflight.tx[t].instr.op = "process_payment"
          /\ inflight.tx[t].instr.provider = inflight.start.account.provider
          /\ inflight.tx[t].instr.patient = inflight.start.account.patient
    /\ {inflight.tx[t].err : t \in Txs} = {"Ok", "ClaimNotVerified"}

\* ----- the four stores together ------------------------------------------
\* All six instructions and the clock, on one patient, one provider
\* identity, one record hash and one claim of the patient against any
\* wallet.
NextStore ==
    \/ \E did \in Dids : initialize_patient("P", did)
    \/ \E did \in Dids, name \in Names : initialize_provider("R", did, name)
    \/ \E owner \in Keys, encrypted_data \in Payloads :
          submit_health_data(owner, "h1", encrypted_data)
    \/ \E provider \in Keys, terms \in ClaimTerms :
          create_claim("c1", "P", provider, terms[1], terms[2])
    \/ \E provider \in Keys, status \in ClaimStatus :
          verify_claim("c1", provider, status)
    \/ \E provider \in Keys : process_payment("c1", provider, "P")
    \/ Tick

SpecStore == Init /\ [][NextStore]_vars

\* C13: records are insertion-only: an identity, health record or claim that
\* exists still exists after every step, and an existing patient identity,
\* provider identity or health record keeps all its fields.
C13_InsertionOnly ==
    [][ /\ \A k \in Keys :
             /\ patient_account[k].initialized
                => patient_account'[k] = patient_account[k]
             /\ provider_account[k].initialized
                => provider_account'[k] = provider_account[k]
        /\ \A h \in Hashes :
             health_data_account[h].initialized
             => health_data_account'[h] = health_data_account[h]
        /\ \A c \in ClaimIds :
             claim_account[c].initialized => claim_account'[c].initialized
      ]_vars

\* All four kinds of record exist, the claim has been paid, time has passed
\* since the record was stored and a second registration of the provider has
\* just been refused.
C13_Witness ==
    /\ patient_account["P"].initialized
    /\ provider_account["R"].initialized
    /\ health_data_account["h1"].initialized
    /\ health_data_account["h1"].timestamp < clock
    /\ claim_account["c1"].initialized
    /\ claim_account["c1"].status = "Paid"
    /\ result = Result("initialize_provider", "R", "AlreadyExists")

\* ----- adjudication as coded ---------------------------------------------
\* C14: verify_claim signed by the claim's recorded provider looks at the
\* signer only: from every current status it returns Ok and sets the status
\* to whichever status was requested, a Paid claim back to Pending included.
C14_AdjudicateAnyToAny ==
    [][\A c \in ClaimIds, s \in ClaimStatus :
          ( /\ result'.op = "verify_claim" /\ result'.account = c
            /\ claim_account[c].initialized
            /\ verify_claim(c, claim_account[c].provider, s) )
          => /\ result'.err = "Ok"
             /\ claim_account'[c].status = s
      ]_vars

\* A claim that was paid by a transfer has been set back to Pending.
C14_Witness ==
    \E c \in ClaimIds :
       /\ result = Result("verify_claim", c, "Ok")
       /\ claim_account[c].initialized /\ claim_account[c].status = "Pending"
       /\ c \in settled

\* ----- order of the payment checks ---------------------------------------
\* The code process_payment(c, r, p) returns when its checks are taken in
\* the order provider, patient, status, transfer.
FirstFailure(c, r, p) ==
    IF r # claim_account[c].provider THEN "Unauthorized"
    ELSE IF p # claim_account[c].patient THEN "InvalidPatient"
    ELSE IF claim_account[c].status # "Verified" THEN "ClaimNotVerified"
    ELSE IF lamports[r] < claim_account[c].amount THEN "InsufficientFunds"
    ELSE "Ok"

\* C15: process_payment reports the first failing precondition in the order
\* provider match, patient match, status Verified, transfer: Unauthorized
\* for a wrong provider whatever the patient and status, InvalidPatient for
\* a wrong patient whatever the status; whenever it fails, claims and
\* balances are unchanged.
C15_FirstFailingCheck ==
    [][\A c \in ClaimIds, r \in Keys, p \in Keys :
          PaymentStep(c, r, p)
          => /\ result'.err = FirstFailure(c, r, p)
             /\ result'.err # "Ok"
                => /\ claim_account' = claim_account
                   /\ lamports' = lamports
      ]_vars

\* process_payment by a wrong provider was refused with Unauthorized on a
\* claim that is not Verified either.
C15_Witness ==
    \E c \in ClaimIds :
       /\ result = Result("process_payment", c, "Unauthorized")
       /\ claim_account[c].initialized /\ claim_account[c].status = "Rejected"

\* ----- payment and status ------------------------------------------------
\* C16: in every reachable state a claim whose status is Paid has had its
\* amount transferred by a successful process_payment.
C16_PaidOnlyByTransfer ==
    \A c \in ClaimIds :
       (claim_account[c].initialized /\ claim_account[c].status = "Paid")
       => c \in settled

NextFrame ==
    \/ submit_health_data("P", "h2", "e1")
    \/ \E claim_id \in ClaimIds, provider \in Keys :
          create_claim(claim_id, "P", provider, "h2", 1)
    \/ \E claim \in ClaimIds, provider \in Keys, status \in ClaimStatus :
          verify_claim(claim, provider, status)
    \/ \E claim \in ClaimIds, provider \in Keys :
          process_payment(claim, provider, "P")
    \/ Tick

SpecFrame == Init /\ [][NextFrame]_vars

\* C18: an existing claim keeps its claim_id, patient, provider,
\* health_data_hash, amount and timestamp in every step; verify_claim and
\* process_payment on a claim change nothing but that claim's status and,
\* for process_payment, the balances of the claim's provider and patient:
\* every other claim, every identity and every health record is unchanged.
C18_ClaimFrame ==
    [][ /\ \A c \in ClaimIds :
             claim_account[c].initialized
             => claim_account'[c] =
                   [claim_account[c] EXCEPT !.status = claim_account'[c].status]
        /\ \A c \in ClaimIds :
             ( /\ result'.account = c
               /\ \/ /\ result'.op = "verify_claim"
                     /\ \E k \in Keys :
                           verify_claim(c, k, claim_account'[c].status)
                  \/ /\ result'.op = "process_payment"
                     /\ \E k \in Keys, p \in Keys : process_payment(c, k, p) )
             => /\ \A d \in ClaimIds \ {c} : claim_account'[d] = claim_account[d]
                /\ UNCHANGED <<patient_account, provider_account,
                               health_data_account, clock>>
                /\ result'.op = "verify_claim" => lamports' = lamports
                /\ claim_account[c].initialized
                   => \A k \in Keys \ {claim_account[c].provider,
                                       claim_account[c].patient} :
                         lamports'[k] = lamports[k]
      ]_vars

\* A claim created before the clock moved has since been paid; the other
\* claim, created later, and the health record exist.
C18_Witness ==
    \E c \in ClaimIds : \E d \in ClaimIds \ {c} :
       /\ claim_account[c].initialized /\ claim_account[d].initialized
       /\ result = Result("process_payment", c, "Ok")
       /\ claim_account[c].status = "Paid"
       /\ claim_account[c].timestamp < claim_account[d].timestamp
       /\ health_data_account["h2"].initialized

\* ----- conservation ------------------------------------------------------
RECURSIVE SumOver(_, _)
SumOver(balances, keys) ==
    IF keys = {} THEN 0
    ELSE LET k == CHOOSE x \in keys : TRUE
         IN  balances[k] + SumOver(balances, keys \ {k})

\* C19: funds are conserved (storage rent apart): every step leaves the sum
\* of all balances as it was; a step that changes a balance is a successful
\* process_payment, and it leaves the balance of every wallet other than the
\* claim's provider and patient as it was.
C19_FundsConserved ==
    [][ /\ SumOver(lamports', Keys) = SumOver(lamports, Keys)
        /\ lamports' # lamports
           => \E c \in ClaimIds :
                 /\ result' = Result("process_payment", c, "Ok")
                 /\ claim_account[c].initialized
                 /\ process_payment(c, claim_account[c].provider,
                                    claim_account[c].patient)
                 /\ \A k \in Keys \ {claim_account[c].provider,
                                     claim_account[c].patient} :
                       lamports'[k] = lamports[k]
      ]_vars

\* Funds have moved from R to P by a payment, with both identities and a
\* record in place; the total is what it was.
C19_Witness ==
    /\ patient_account["P"].initialized
    /\ provider_account["R"].initialized
    /\ health_data_account["h1"].initialized
    /\ lamports["P"] = InitialLamports + 1
    /\ lamports["R"] = InitialLamports - 1
    /\ result = Result("process_payment", "c1", "Ok")
====
